---- MODULE Spec2Model ----
(***************************************************************************)
(* yagooglesearch: the paginated retrieval loop of SearchClient.           *)
(*                                                                         *)
(* Two variants of the class are in the repository:                        *)
(*   "current"  src/src/yagooglesearch/__init__.py  (version 1.10.0)       *)
(*   "legacy"   src/yagooglesearch/__init__.py      (version 1.2.0)        *)
(* The model holds one SearchClient object.  search() blocks on every      *)
(* HTTP request, so one step of the model is either a call of search() up  *)
(* to its first request, or the arrival of a response together with all    *)
(* the code that runs until the next request is in flight or search()      *)
(* ends.  A second specification, FilterSpec, calls the public method      *)
(* filter_search_result_urls on its own, on a wider set of hrefs than the  *)
(* pages of Spec hold; TbsSpec does the same for the helper get_tbs, and   *)
(* RetrySpec follows the bootstrap fetch through a run of 429s as long as  *)
(* the interpreter's stack allows.                                         *)
(*                                                                         *)
(* Numbers: cool-off durations are kept in thousandths of a minute and the *)
(* cool-off factor in hundredths, so that round(x, 2) is an integer        *)
(* computation; a cool-off sleep is kept in thousandths of a second.       *)
(***************************************************************************)
EXTENDS Integers, Sequences, FiniteSets, TLC

VARIABLES
    variant,                            \* which of the two source files
    args,                               \* the arguments given to __init__
    num,                                \* self.num
    start,                              \* self.start
    cookies,                            \* self.cookies
    http_429_cool_off_time_in_minutes,  \* self.http_429_cool_off_time_in_minutes
    extra_params,                       \* self.extra_params (its keys, in dict order)
    search_result_list,                 \* self.search_result_list / unique_urls_set
    total_valid_links_found,            \* local of search()
    valid_links_found_in_this_search,   \* local of search()
    link_bound,                         \* whether the local `link` of search() is bound
    url,                                \* the URL of the request in flight
    pc,                                 \* where search() stands
    result,                             \* what the last search() call returned or raised
    obs,                                \* what the last step did (requests, sleeps, counts)
    filter_call,                        \* the last direct call of filter_search_result_urls
    tbs_call                            \* the last call of get_tbs

vars == <<variant, args, num, start, cookies, http_429_cool_off_time_in_minutes,
          extra_params, search_result_list, total_valid_links_found,
          valid_links_found_in_this_search, link_bound, url, pc, result, obs,
          filter_call, tbs_call>>

(***************************************************************************)
(* Bounds of the model.                                                    *)
(***************************************************************************)
\* HTTP requests issued over the life of one SearchClient object.
MaxRequests == 5

(***************************************************************************)
(* Program constants.                                                      *)
(***************************************************************************)
\* "The largest value allowed by Google for num is 100."
NumLimit == 100
\* num == 10 selects the URL templates without a num parameter.
DefaultNum == 10
\* range(minimum, minimum + 11)
JitterSpan == 11
\* round(..., 2), in thousandths: a multiple of 10.
RoundUnit == 10
\* time.sleep(minutes * 60)
SecondsPerMinute == 60
HTTP_OK == 200
HTTP_TOO_MANY == 429

Variants == {"current", "legacy"}

(***************************************************************************)
(* Strings.  A Python string that is (or may be) a URL is kept by the      *)
(* parts urllib.parse.urlparse splits it into: netloc is the host, as the  *)
(* sequence of its pieces, and path is everything else.  None is a value   *)
(* of its own.                                                             *)
(***************************************************************************)
Str(netloc, path) == [type |-> "str", netloc |-> netloc, path |-> path]
\* netloc is what urlparse calls so: the host, and with it a port or user
\* name the link gives; a piece that begins with ':' is a port.
None == [type |-> "NoneType", netloc |-> <<>>, path |-> ""]

ExampleCom == Str(<<"example", ".com">>, "/page")
ExampleOrg == Str(<<"example", ".org">>, "")
AccountsGoogle == Str(<<"accounts.", "google", ".com">>, "/foo")
SENTINEL == Str(<<>>, "HTTP_429_DETECTED")
GoogleUpper == Str(<<"WWW.", "GOOGLE", ".COM">>, "/")
GoogleUserContent == Str(<<"lh3.", "google", "usercontent.com">>, "/img")
RelativePath == Str(<<>>, "relative/path")
\* http://:80/x : a port and no host
PortOnly == Str(<<":80">>, "/x")
Blank == Str(<<>>, "")
\* https://example.com/page with one letter percent-encoded
ExampleComQuoted == Str(<<"example", ".com">>, "/p%61ge")
\* A value that is no string, and an exception in place of a value.
NotAString == [type |-> "int", netloc |-> <<>>, path |-> "7"]
Exc(e) == [type |-> "exception", netloc |-> <<>>, path |-> e]

\* An href: a plain link, or a redirect wrapper with its query string.
PlainHref(l) == [prefix |-> "", query |-> <<>>, link |-> l]
WrapperHref(p, q) == [prefix |-> p, query |-> q, link |-> Str(<<>>, p)]

\* An anchor element: it has an href attribute or not.
Anchor(h) == [has_href |-> TRUE, href |-> h]
AnchorNoHref == [has_href |-> FALSE, href |-> PlainHref(Str(<<>>, ""))]

A_COM == Anchor(PlainHref(ExampleCom))
A_ORG == Anchor(PlainHref(ExampleOrg))
A_WRAPPED_COM ==
    Anchor(WrapperHref("/url?", <<[k |-> "q", v |-> ExampleCom], [k |-> "sa", v |-> Str(<<>>, "U")]>>))
A_GOOGLE == Anchor(PlainHref(AccountsGoogle))
A_PORT_ONLY == Anchor(PlainHref(PortOnly))

\* The response bodies the provider serves, each as the anchors BeautifulSoup
\* finds in it, in document order.
Bodies ==
    { <<>>,
      <<AnchorNoHref>>,
      <<A_GOOGLE>>,
      <<A_COM>>,
      <<A_ORG>>,
      <<A_COM, A_ORG>>,
      <<A_COM, A_WRAPPED_COM>>,
      <<AnchorNoHref, A_COM>>,
      <<A_ORG, AnchorNoHref, A_COM>>,
      <<A_PORT_ONLY>> }

\* response.text: what search() compares with "HTTP_429_DETECTED", and the
\* anchors BeautifulSoup finds in it.  One document is the bare text
\* HTTP_429_DETECTED, which holds no anchor.
Html(text, anchors) == [text |-> text, anchors |-> anchors]
EmptyHtml == Html("", <<>>)
SentinelHtml == Html("HTTP_429_DETECTED", <<>>)
Htmls == {EmptyHtml, SentinelHtml} \cup {Html("<html>", b) : b \in Bodies \ {<<>>}}

(***************************************************************************)
(* Arguments of __init__.  The legacy constructor has no verbose_output,   *)
(* yagooglesearch_manages_http_429s or google_exemption parameter: there   *)
(* the model keeps them at the behaviour the legacy code has (URL-only     *)
(* output, 429s always managed, no cookie at construction).                *)
(* http_429_cool_off_time_in_minutes is in thousandths of a minute,        *)
(* http_429_cool_off_factor in hundredths.                                 *)
(***************************************************************************)
Args(st, n, cap, manages, cool, factor, verbose, extra, exemption) ==
    [ start |-> st,
      num |-> n,
      max_search_result_urls_to_return |-> cap,
      minimum_delay_between_paged_results_in_seconds |-> 7,
      yagooglesearch_manages_http_429s |-> manages,
      http_429_cool_off_time_in_minutes |-> cool,
      http_429_cool_off_factor |-> factor,
      verbose_output |-> verbose,
      extra_params |-> extra,
      google_exemption |-> exemption ]

\* (verbose_output, yagooglesearch_manages_http_429s) a variant can be given.
Modes(v) == IF v = "current" THEN BOOLEAN \X BOOLEAN ELSE {<<FALSE, TRUE>>}

CapArgs == {-1, 0, 1, 2, 3}
NumArgs == {1, 10, 101}
StartArgs == {0, 5}
\* <<minutes in thousandths, factor in hundredths>>: 60 x 1.1, 0.13 x 1.2, 1.004 x 1.0
CoolOffArgs == {<<60000, 110>>, <<130, 120>>, <<1004, 100>>}
ExtraArgs == {<<>>, <<"filter">>, <<"num">>, <<"lr">>}

\* Configurations that vary the result cap and the page size.
PagingArgs(v) ==
    { Args(0, n, cap, m[2], 60000, 110, m[1], <<>>, "") :
        n \in (IF v = "legacy" THEN {1, 2} ELSE {1}), cap \in CapArgs, m \in Modes(v) }
\* Configurations that vary the cool-off policy.
RateLimitArgs(v) ==
    { Args(0, 1, 3, m[2], c[1], c[2], m[1], <<>>, "") :
        c \in CoolOffArgs, m \in Modes(v) }
\* Configurations with a cookie given at construction (current variant only).
ExemptionArgs(v) ==
    IF v = "current"
    THEN { Args(0, 1, 3, m, 60000, 110, FALSE, <<>>, "exempt") : m \in BOOLEAN }
    ELSE {}
\* Configurations that vary what goes into the URL.
UrlArgs(v) ==
    { Args(st, n, 3, TRUE, 60000, 110, FALSE, x, "") :
        st \in StartArgs, n \in NumArgs, x \in ExtraArgs }

ArgsOf(v) == PagingArgs(v) \cup RateLimitArgs(v) \cup ExemptionArgs(v) \cup UrlArgs(v)

(***************************************************************************)
(* __init__                                                                *)
(***************************************************************************)
\* if self.num > 100: self.num = 100   (NoClamp: the test left out)
NoClamp(n) == n
ClampNum(n) == IF n > NumLimit THEN NumLimit ELSE n

\* self.cookies at construction.  None and the empty jar send the same (no)
\* cookies, and both are the empty set here.
InitialCookies(exemption) ==
    IF exemption # ""
    THEN {[name |-> "GOOGLE_ABUSE_EXEMPTION", value |-> <<exemption>>]}
    ELSE {}

\* self.url_parameters   (url_parameters_without_num: one name forgotten)
url_parameters_without_num(v) ==
    {"btnG", "cr", "hl", "q", "safe", "start", "tbs", "lr"}
url_parameters(v) ==
    IF v = "current"
    THEN {"btnG", "cr", "hl", "num", "q", "safe", "start", "tbs", "lr"}
    ELSE {"btnG", "cr", "hl", "num", "q", "safe", "start", "tbs"}

(***************************************************************************)
(* update_urls.  A URL is kept as the sequence of its query-parameter keys *)
(* and the values written for start and num (0 when the key is absent);    *)
(* the other values are configuration the model does not vary.             *)
(***************************************************************************)
Url(page, keys, st, n) == [page |-> page, keys |-> keys, start |-> st, num |-> n]

\* hl and, in the current variant, lr
LangKeys(v) == IF v = "current" THEN <<"hl", "lr">> ELSE <<"hl">>

url_home == Url("home", <<>>, 0, 0)
url_search(v, st, n) ==
    Url("search", LangKeys(v) \o <<"q", "btnG", "tbs", "safe", "cr", "filter">>, 0, 0)
url_next_page(v, st, n) ==
    Url("search", LangKeys(v) \o <<"q", "start", "tbs", "safe", "cr", "filter">>, st, 0)
url_search_num(v, st, n) ==
    Url("search", LangKeys(v) \o <<"q", "num", "btnG", "tbs", "safe", "cr", "filter">>, 0, n)
url_next_page_num(v, st, n) ==
    Url("search", LangKeys(v) \o <<"q", "start", "num", "tbs", "safe", "cr", "filter">>, st, n)

\* "Prepare the URL for the search request."
\* (PrepareUrlByNumOnly: the test of start left out)
PrepareUrlByNumOnly(v, st, n) ==
    IF n = DefaultNum THEN url_search(v, st, n) ELSE url_search_num(v, st, n)
PrepareUrl(v, st, n) ==
    IF st # 0
    THEN IF n = DefaultNum THEN url_next_page(v, st, n) ELSE url_next_page_num(v, st, n)
    ELSE IF n = DefaultNum THEN url_search(v, st, n) ELSE url_search_num(v, st, n)

\* "Append extra GET parameters to the URL."
AppendExtraParams(u, extra) == [u EXCEPT !.keys = u.keys \o extra]

\* "Check extra_params for overlapping parameters."
Overlapping(v, extra) == \E i \in 1..Len(extra) : extra[i] \in url_parameters(v)

(***************************************************************************)
(* filter_search_result_urls                                               *)
(***************************************************************************)
\* str.lower() on the pieces of a host.
Lower(piece) ==
    CASE piece = "GOOGLE" -> "google"
      [] piece = "Google" -> "google"
      [] OTHER -> piece

\* urllib.parse.unquote on a value of the query string.
Unquote(s) == IF s = ExampleComQuoted THEN ExampleCom ELSE s

\* urllib.parse.parse_qs(query)[key]: the values given for key, decoded; a
\* blank value is dropped (keep_blank_values is off).
ParseQs(query, key) ==
    LET given == SelectSeq(query, LAMBDA p : p.k = key /\ p.v # Blank)
    IN  [i \in 1..Len(given) |-> [k |-> key, v |-> Unquote(given[i].v)]]

IsWrapper(href) == href.prefix \in {"/url?", "http://www.google.com/url?"}

\* The try block up to the urlparse of the link: the link, or the exception
\* that leaves the block (link.startswith on a value that is no string,
\* the second parse_qs(...)["url"]).   (UrlBeforeQ: the two keys swapped)
UrlBeforeQ(href) ==
    IF href.link.type # "str" THEN Exc("AttributeError")
    ELSE IF IsWrapper(href)
    THEN IF ParseQs(href.query, "url") # <<>> THEN ParseQs(href.query, "url")[1].v
         ELSE IF ParseQs(href.query, "q") # <<>> THEN ParseQs(href.query, "q")[1].v
         ELSE Exc("KeyError")
    ELSE href.link
Unwrap(href) ==
    IF href.link.type # "str" THEN Exc("AttributeError")
    ELSE IF IsWrapper(href)
    THEN IF ParseQs(href.query, "q") # <<>> THEN ParseQs(href.query, "q")[1].v
         ELSE IF ParseQs(href.query, "url") # <<>> THEN ParseQs(href.query, "url")[1].v
         ELSE Exc("KeyError")
    ELSE href.link

\* The whole try block: the link that passed the two host tests, None, or
\* the exception.
TryBlock(href) ==
    LET link == Unwrap(href) IN
    IF link.type = "exception" THEN link
    ELSE IF link.netloc = <<>> THEN None
    ELSE IF \E i \in 1..Len(link.netloc) : Lower(link.netloc[i]) = "google" THEN None
    ELSE link

\* except Exception: link = None   (ExceptKeyError: only KeyError caught)
ExceptKeyError(value) == IF value = Exc("KeyError") THEN None ELSE value
ExceptException(value) == IF value.type = "exception" THEN None ELSE value

filter_search_result_urls(href) == ExceptException(TryBlock(href))

\* `if not link`
Falsy(link) == link = None \/ link = Str(<<>>, "")

(***************************************************************************)
(* http_429_detected                                                       *)
(***************************************************************************)
\* round(x, 2) of x given in units of 10^-5: the nearest hundredth, a tie
\* going to the even one; the result in thousandths.
Round2(x) ==
    LET q == x \div 1000
        r == x % 1000
        up == r > 500 \/ (r = 500 /\ q % 2 = 1)
    IN  (IF up THEN q + 1 ELSE q) * RoundUnit

\* round(self.http_429_cool_off_time_in_minutes * self.http_429_cool_off_factor, 2)
\* (Truncated: cut off instead of rounded; Shrinking: the factor applied the
\* wrong way round)
Truncated(minutes, factor) == ((minutes * factor) \div 1000) * RoundUnit
Shrinking(minutes, factor) == Round2(minutes * (200 - factor))
http_429_detected(minutes, factor) == Round2(minutes * factor)

(***************************************************************************)
(* get_page: cookies                                                       *)
(***************************************************************************)
\* A cookie value is kept as the sequence of its '+'-separated parts.
Cookie(n, v) == [name |-> n, value |-> v]

\* The jars a response comes with: a plain one, and one with the cookie
\* CONSENT=PENDING+123+x among others.
ResponseCookies ==
    { {Cookie("NID", <<"511">>)},
      {Cookie("CONSENT", <<"PENDING", "123", "x">>), Cookie("AEC", <<"7">>)} }

\* response.cookies["CONSENT"].startswith("PENDING+")
ConsentPending(jar) ==
    \E c \in jar : c.name = "CONSENT" /\ Len(c.value) >= 2 /\ c.value[1] = "PENDING"

\* self.cookies after a response: the response's jar, or in the current
\* variant the consent-granted cookie built from it.
\* (MergedCookies: the response's jar added to the one held)
MergedCookies(v, jar) == cookies \cup jar
CookiesAfter(v, jar) ==
    IF v = "current" /\ ConsentPending(jar)
    THEN LET c == CHOOSE c \in jar : c.name = "CONSENT"
         IN  {Cookie("CONSENT", <<"YES", "shp.gws-20211108-0-RC1.fr", "F", c.value[2]>>)}
    ELSE jar

(***************************************************************************)
(* search(): the result collection                                         *)
(***************************************************************************)
\* An entry of search_result_list: a URL string, or with verbose_output the
\* dict {"rank", "title", "description", "url"} (title and description are
\* not modelled).
StrEntry(link) == [type |-> "str", rank |-> 0, url |-> link]
\* (DictEntryRankedBeforeCount: the rank taken before the counter is increased)
DictEntryRankedBeforeCount(rank, link) == [type |-> "dict", rank |-> rank - 1, url |-> link]
DictEntry(rank, link) == [type |-> "dict", rank |-> rank, url |-> link]

\* `link in self.search_result_list`: Python compares the string with every
\* entry; a string never equals a dict.
Contains(list, link) ==
    \E i \in 1..Len(list) : list[i].type = "str" /\ list[i].url = link

\* The loop over the anchors of one page, from anchor i on.  st holds the
\* collection, the two counters, whether `link` is bound, the number of
\* anchors examined and how the loop ended: "end" (all anchors done),
\* "return" (the cap was reached) or "raise" (the except clause read the
\* unbound local `link`).
RECURSIVE ProcessAnchors(_, _, _, _, _)
ProcessAnchors(verbose, cap, anchors, i, st) ==
    IF i > Len(anchors) THEN [st EXCEPT !.out = "end"]
    ELSE
      LET a == anchors[i]
          seen == [st EXCEPT !.seen = i]
      IN
      IF ~a.has_href
      THEN IF st.bound
           THEN ProcessAnchors(verbose, cap, anchors, i + 1, seen)
           ELSE [seen EXCEPT !.out = "raise"]
      ELSE
        LET link == filter_search_result_urls(a.href)
            bound == [seen EXCEPT !.bound = TRUE]
        IN
        IF Falsy(link) THEN ProcessAnchors(verbose, cap, anchors, i + 1, bound)
        ELSE
          LET added ==
                IF ~Contains(st.list, link)
                THEN [bound EXCEPT
                        !.valid = @ + 1,
                        !.total = @ + 1,
                        !.list = Append(@, IF verbose
                                           THEN DictEntry(st.total + 1, link)
                                           ELSE StrEntry(link))]
                ELSE bound
          IN
          IF cap <= Len(added.list)
          THEN [added EXCEPT !.out = "return"]
          ELSE ProcessAnchors(verbose, cap, anchors, i + 1, added)

\* The test at the end of a page that ends the search.
\* (PageNeverEndsSearch: the test left out)
PageNeverEndsSearch(v, valid, n) == FALSE
PageEndsSearch(v, valid, n) ==
    IF v = "current" THEN valid = 0 ELSE valid # n

\* The value search() hands back: the list, in the legacy variant
\* list(unique_urls_set) and so in any order, or None when the while loop
\* runs out.
Pending == [kind |-> "pending", list |-> <<>>, error |-> ""]
ReturnedNone == [kind |-> "None", list |-> <<>>, error |-> ""]
Returned(list) == [kind |-> "list", list |-> list, error |-> ""]
Raised(e) == [kind |-> "raise", list |-> <<>>, error |-> e]

Orders(v, list) ==
    IF v = "current" THEN {list}
    ELSE { [i \in 1..Len(list) |-> list[f[i]]] :
             f \in {g \in [1..Len(list) -> 1..Len(list)] :
                      \A i, j \in 1..Len(list) : g[i] = g[j] => i = j} }

(***************************************************************************)
(* What the last step did.                                                 *)
(***************************************************************************)
\* A sleep: its kind ("cool_off" or "jitter") and its length in thousandths
\* of a second.  obs.slept_at holds the value self.start had when time.sleep
\* was called.
Sleep(kind, ms) == [kind |-> kind, ms |-> ms]

Quiet(o) == [o EXCEPT !.status = 0, !.sleeps = <<>>, !.anchors_left = 0, !.links = <<>>,
                        !.slept_at = <<>>]

\* A request sent by get_page called from search(): obs.nested is the number of
\* get_page calls on the stack when the request is sent, 1 for a call that
\* search() makes.
Issue(o, page, jar) ==
    [o EXCEPT !.requests = @ + 1,
              !.call_requests = @ + 1,
              !.page_requests = IF page THEN @ + 1 ELSE @,
              !.sent_cookies = jar,
              !.nested = 1]

(***************************************************************************)
(* The state after construction.                                           *)
(***************************************************************************)
Init ==
    \E v \in Variants :
      \E a \in ArgsOf(v) :
        /\ variant = v
        /\ args = a
        /\ num = ClampNum(a.num)
        /\ start = a.start
        /\ cookies = InitialCookies(a.google_exemption)
        /\ http_429_cool_off_time_in_minutes = a.http_429_cool_off_time_in_minutes
        /\ extra_params = a.extra_params
        /\ search_result_list = <<>>
        /\ total_valid_links_found = 0
        /\ valid_links_found_in_this_search = 0
        /\ link_bound = FALSE
        /\ url = url_home
        /\ pc = "idle"
        /\ result = Pending
        /\ obs = [ requests |-> 0, call_requests |-> 0, page_requests |-> 0,
                   sent_cookies |-> {}, response_cookies |-> {}, status |-> 0,
                   detected |-> 0, sleeps |-> <<>>, anchors_left |-> 0,
                   nested |-> 0, links |-> <<>>, slept_at |-> <<>> ]
        /\ filter_call = <<>>
        /\ tbs_call = <<>>

(***************************************************************************)
(* search() is called: up to the request for the home page.                *)
(***************************************************************************)
\* (SearchFromConstructionOffset: start put back to the constructor's value)
SearchFromConstructionOffset ==
    /\ pc \in {"idle", "returned", "raised"}
    /\ ~Overlapping(variant, extra_params)
    /\ obs.requests < MaxRequests
    /\ search_result_list' = <<>>
    /\ total_valid_links_found' = 0
    /\ valid_links_found_in_this_search' = 0
    /\ link_bound' = FALSE
    /\ start' = args.start
    /\ pc' = "get_home"
    /\ result' = Pending
    /\ url' = url_home
    /\ obs' = Issue([Quiet(obs) EXCEPT !.call_requests = 0, !.page_requests = 0],
                    FALSE, cookies)
    /\ UNCHANGED <<variant, args, num, cookies, http_429_cool_off_time_in_minutes,
                   extra_params, filter_call, tbs_call>>

Search ==
    /\ pc \in {"idle", "returned", "raised"}
    /\ search_result_list' = <<>>
    /\ total_valid_links_found' = 0
    /\ valid_links_found_in_this_search' = 0
    /\ link_bound' = FALSE
    /\ UNCHANGED <<variant, args, num, start, cookies,
                   http_429_cool_off_time_in_minutes, extra_params, filter_call, tbs_call>>
    /\ IF Overlapping(variant, extra_params)
       THEN /\ pc' = "raised"
            /\ result' = Raised("ValueError")
            /\ url' = url
            /\ obs' = [Quiet(obs) EXCEPT !.call_requests = 0, !.page_requests = 0]
       ELSE /\ obs.requests < MaxRequests
            /\ pc' = "get_home"
            /\ result' = Pending
            /\ url' = url_home
            /\ obs' = Issue([Quiet(obs) EXCEPT !.call_requests = 0, !.page_requests = 0],
                            FALSE, cookies)

(***************************************************************************)
(* requests.get raises (DNS, connection, timeout): nothing catches it.     *)
(***************************************************************************)
\* (TransportFailureRetried: the exception caught and the request sent again)
TransportFailureRetried ==
    /\ pc \in {"get_home", "get_page"}
    /\ obs.requests < MaxRequests
    /\ obs' = Issue(Quiet(obs), pc = "get_page", cookies)
    /\ UNCHANGED <<variant, args, num, start, cookies, http_429_cool_off_time_in_minutes,
                   extra_params, search_result_list, total_valid_links_found,
                   valid_links_found_in_this_search, link_bound, url, pc, result,
                   filter_call, tbs_call>>

TransportFailure ==
    /\ pc \in {"get_home", "get_page"}
    /\ pc' = "raised"
    /\ result' = Raised("RequestException")
    /\ obs' = Quiet(obs)
    /\ UNCHANGED <<variant, args, num, start, cookies, http_429_cool_off_time_in_minutes,
                   extra_params, search_result_list, total_valid_links_found,
                   valid_links_found_in_this_search, link_bound, url, filter_call, tbs_call>>

(***************************************************************************)
(* A response arrives: the rest of get_page, and search() up to the next   *)
(* request or to its end.                                                  *)
(***************************************************************************)
Statuses == {HTTP_OK, HTTP_TOO_MANY, 500}

cap == args.max_search_result_urls_to_return

\* random.choice(range(minimum, minimum + 11)), in seconds: the least and
\* the greatest value of the range stand for the values between them.
\* (JitterChoicesInclusive: minimum + 11 taken for a value of the range)
JitterChoicesInclusive ==
    { args.minimum_delay_between_paged_results_in_seconds,
      args.minimum_delay_between_paged_results_in_seconds + JitterSpan }
JitterChoices ==
    { args.minimum_delay_between_paged_results_in_seconds,
      args.minimum_delay_between_paged_results_in_seconds + JitterSpan - 1 }

\* `if not self.yagooglesearch_manages_http_429s: return "HTTP_429_DETECTED"`;
\* the legacy get_page has no such test and always retries.
\* (AlwaysRetries: the flag ignored)
AlwaysRetries(v, a) == TRUE
Retries429(v, a) == v = "legacy" \/ a.yagooglesearch_manages_http_429s

\* time.sleep(minutes * 60) and then http_429_detected(): the length of the
\* sleep, in thousandths of a second, and the duration afterwards.
\* (EscalateThenSleep: the two statements swapped)
EscalateThenSleep(minutes, factor) ==
    [ slept |-> http_429_detected(minutes, factor) * SecondsPerMinute,
      minutes |-> http_429_detected(minutes, factor) ]
SleepThenEscalate(minutes, factor) ==
    [ slept |-> minutes * SecondsPerMinute,
      minutes |-> http_429_detected(minutes, factor) ]

\* get_page on a 429 it manages: sleep, http_429_detected(), the same URL again.
\* The retry is `html = self.get_page(url)`, a call of get_page from inside
\* get_page: every 429 in a row adds a frame, and the interpreter raises
\* RecursionError for a call nested deeper than its limit (the limit counts
\* the frames of the caller, of search() and of the HTTP client too, so the
\* real call fails a few frames earlier than this).
\* `within` is the number of requests the run may make.
RecursionLimit == 1000

\* (Retry429FromNextOffset: the retry treated as a page that was consumed)
Retry429FromNextOffset(o, within) ==
    /\ o.requests < within
    /\ http_429_cool_off_time_in_minutes' =
           SleepThenEscalate(http_429_cool_off_time_in_minutes,
                             args.http_429_cool_off_factor).minutes
    /\ url' = url
    /\ pc' = pc
    /\ result' = result
    /\ start' = start + num
    /\ obs' = [Issue([o EXCEPT !.detected = @ + 1], pc = "get_page", cookies')
                 EXCEPT !.nested = o.nested + 1]
    /\ UNCHANGED <<search_result_list, total_valid_links_found,
                   valid_links_found_in_this_search, link_bound>>

Retry429(o, within) ==
    /\ o.requests < within
    /\ http_429_cool_off_time_in_minutes' =
           SleepThenEscalate(http_429_cool_off_time_in_minutes,
                             args.http_429_cool_off_factor).minutes
    /\ url' = url
    /\ LET slept == [o EXCEPT
                       !.sleeps = <<Sleep("cool_off",
                                          SleepThenEscalate(http_429_cool_off_time_in_minutes,
                                                            args.http_429_cool_off_factor).slept)>>,
                       !.slept_at = <<start>>,
                       !.detected = @ + 1] IN
       IF o.nested < RecursionLimit
       THEN /\ pc' = pc
            /\ result' = result
            /\ obs' = [Issue(slept, pc = "get_page", cookies')
                         EXCEPT !.nested = o.nested + 1]
       ELSE /\ pc' = "raised"
            /\ result' = Raised("RecursionError")
            /\ obs' = slept
    /\ UNCHANGED <<start, search_result_list, total_valid_links_found,
                   valid_links_found_in_this_search, link_bound>>

\* The head of the while loop and the request for the next search page.
LoopHead(total, o) ==
    IF total <= cap
    THEN /\ o.requests < MaxRequests
         /\ url' = AppendExtraParams(PrepareUrl(variant, start', num), extra_params)
         /\ pc' = "get_page"
         /\ result' = result
         /\ obs' = Issue(o, TRUE, cookies')
    ELSE /\ url' = url
         /\ pc' = "returned"
         /\ result' = ReturnedNone
         /\ obs' = o

\* The response to the home page request: its content is not used.
\* (AfterHomeAdvances: the response treated as a page of results)
AfterHomeAdvances(o) ==
    /\ start' = start + num
    /\ UNCHANGED <<http_429_cool_off_time_in_minutes, search_result_list,
                   total_valid_links_found, valid_links_found_in_this_search, link_bound>>
    /\ LoopHead(total_valid_links_found, o)
AfterHome(o) ==
    /\ UNCHANGED <<start, http_429_cool_off_time_in_minutes, search_result_list,
                   total_valid_links_found, valid_links_found_in_this_search, link_bound>>
    /\ LoopHead(total_valid_links_found, o)

\* return self.search_result_list
Return(list, o) ==
    /\ \E r \in Orders(variant, list) : result' = Returned(r)
    /\ pc' = "returned"
    /\ url' = url
    /\ obs' = o
    /\ UNCHANGED <<start, http_429_cool_off_time_in_minutes>>

\* get_page returned "HTTP_429_DETECTED" for a search page.
AfterSentinel(o) ==
    /\ search_result_list' = Append(search_result_list, StrEntry(SENTINEL))
    /\ UNCHANGED <<total_valid_links_found, valid_links_found_in_this_search, link_bound>>
    /\ Return(search_result_list', o)

\* self.start += self.num   (SkipsAnOffset: the page size added twice)
SkipsAnOffset(st, n) == st + n + n
NextStart(st, n) == st + n

\* The html of a search page: the anchors, the end-of-page test, and the
\* step to the next page.
\* The links of a page in anchor order: what filter_search_result_urls gives
\* for each anchor that has an href and is not dropped (obs.links).
PageLinks(anchors) ==
    LET kept == SelectSeq(anchors,
                    LAMBDA a : a.has_href /\ ~Falsy(filter_search_result_urls(a.href)))
    IN  [i \in 1..Len(kept) |-> filter_search_result_urls(kept[i].href)]

AfterPage(anchors, o) ==
    LET st == ProcessAnchors(args.verbose_output, cap, anchors, 1,
                  [ list |-> search_result_list, total |-> total_valid_links_found,
                    valid |-> 0, bound |-> link_bound, seen |-> 0, out |-> "loop" ])
        o1 == [o EXCEPT !.anchors_left = Len(anchors) - st.seen,
                        !.links = PageLinks(anchors)]
    IN
    /\ search_result_list' = st.list
    /\ total_valid_links_found' = st.total
    /\ valid_links_found_in_this_search' = st.valid
    /\ link_bound' = st.bound
    /\ CASE st.out = "raise" ->
              /\ pc' = "raised"
              /\ result' = Raised("UnboundLocalError")
              /\ url' = url
              /\ obs' = o1
              /\ UNCHANGED <<start, http_429_cool_off_time_in_minutes>>
         [] st.out = "return" -> Return(st.list, o1)
         [] st.out = "end" /\ PageEndsSearch(variant, st.valid, num) -> Return(st.list, o1)
         [] OTHER ->
              /\ start' = NextStart(start, num)
              /\ UNCHANGED http_429_cool_off_time_in_minutes
              /\ \E d \in JitterChoices :
                    LoopHead(st.total, [o1 EXCEPT !.sleeps = <<Sleep("jitter", d * 1000)>>,
                                                  !.slept_at = <<start'>>])

\* What get_page returns when it does not retry: "HTTP_429_DETECTED" for a
\* 429 it does not manage, response.text for a 200, "" otherwise.
get_page(status, html) ==
    IF status = HTTP_OK THEN html
    ELSE IF status = HTTP_TOO_MANY THEN SentinelHtml
    ELSE EmptyHtml

\* `if html == "HTTP_429_DETECTED"`: the legacy search() has no such test.
IsSentinel(v, html) == v = "current" /\ html.text = SentinelHtml.text

RespondWithin(status, jar, html, within) ==
    /\ pc \in {"get_home", "get_page"}
    /\ status = HTTP_OK \/ html = EmptyHtml
    /\ cookies' = CookiesAfter(variant, jar)
    /\ UNCHANGED <<variant, args, num, extra_params, filter_call, tbs_call>>
    /\ LET o == [Quiet(obs) EXCEPT !.status = status, !.response_cookies = jar] IN
       IF status = HTTP_TOO_MANY /\ Retries429(variant, args)
       THEN Retry429(o, within)
       ELSE IF pc = "get_home" THEN AfterHome(o)
       ELSE IF IsSentinel(variant, get_page(status, html)) THEN AfterSentinel(o)
       ELSE AfterPage(get_page(status, html).anchors, o)

Respond(status, jar, html) == RespondWithin(status, jar, html, MaxRequests)

Next ==
    \/ Search
    \/ \E status \in Statuses, jar \in ResponseCookies, html \in Htmls :
          Respond(status, jar, html)
    \/ TransportFailure

Spec == Init /\ [][Next]_vars

(***************************************************************************)
(* The bootstrap fetch under a long run of 429s: the same steps, with the  *)
(* retries limited by the interpreter's stack only.  The configurations    *)
(* are those that manage 429s with a factor of 1.0, whose duration stays   *)
(* the same however many events there are.                                 *)
(***************************************************************************)
RetryInit ==
    /\ Init
    /\ Retries429(variant, args)
    /\ args.http_429_cool_off_factor = 100

RetryNext ==
    \/ Search
    \/ \E status \in Statuses, jar \in ResponseCookies :
          /\ pc = "get_home"
          /\ RespondWithin(status, jar, EmptyHtml, RecursionLimit + MaxRequests)
    \/ TransportFailure

RetrySpec == RetryInit /\ [][RetryNext]_vars

(***************************************************************************)
(* A provider that never answers 429 and a network that never fails:       *)
(* requests.get blocks until the response is there, so every request that  *)
(* is in flight is answered.                                               *)
(***************************************************************************)
Answer ==
    \E status \in Statuses \ {HTTP_TOO_MANY}, jar \in ResponseCookies, html \in Htmls :
        Respond(status, jar, html)

AnsweredNext == Search \/ Answer

AnsweredSpec == Init /\ [][AnsweredNext]_vars /\ WF_vars(Answer)

(***************************************************************************)
(* filter_search_result_urls called on its own.  The method reads and      *)
(* writes nothing of the object, so a call only records its argument and   *)
(* what it gave back.                                                      *)
(***************************************************************************)
\* The values a link or a query parameter takes.
LinkValues ==
    { ExampleCom, ExampleOrg, ExampleComQuoted, AccountsGoogle, GoogleUpper,
      GoogleUserContent, RelativePath, PortOnly, Blank }

\* key=value for one of the values, or the key left out.
Param(key, values) == {<<>>} \cup {<<[k |-> key, v |-> x]>> : x \in values}

QValues == {ExampleComQuoted, AccountsGoogle, RelativePath, Blank}
UrlValues == {ExampleOrg, GoogleUpper, Blank}

\* The query strings of a wrapper: q and url in either order and sa=U, and
\* one with q given twice.
Queries ==
    { a \o b \o <<[k |-> "sa", v |-> Str(<<>>, "U")]>> :
        a \in Param("q", QValues), b \in Param("url", UrlValues) }
      \cup { <<[k |-> "sa", v |-> Str(<<>>, "U")]>> \o b \o a :
                a \in Param("q", QValues), b \in Param("url", UrlValues) }
      \cup { <<[k |-> "q", v |-> ExampleOrg], [k |-> "q", v |-> ExampleCom]>> }

Hrefs ==
    { PlainHref(l) : l \in LinkValues \cup {None, NotAString} }
      \cup { WrapperHref(p, q) : p \in {"/url?", "http://www.google.com/url?"}, q \in Queries }
      \cup { PlainHref(Str(<<"www.", "google", ".com">>, "/url?q=https://example.com/page")) }

FilterCall(h) ==
    /\ pc = "idle"
    /\ filter_call' = <<[href |-> h, link |-> filter_search_result_urls(h)]>>
    /\ UNCHANGED <<variant, args, num, start, cookies, http_429_cool_off_time_in_minutes,
                   extra_params, search_result_list, total_valid_links_found,
                   valid_links_found_in_this_search, link_bound, url, pc, result, obs,
                   tbs_call>>

FilterNext == \E h \in Hrefs : FilterCall(h)

FilterSpec == Init /\ [][FilterNext]_vars

(***************************************************************************)
(* get_tbs, the module-level helper that formats a search period.          *)
(***************************************************************************)
\* A datetime.date.
Date(y, m, d) == [year |-> y, month |-> m, day |-> d]
Dates == { Date(y, m, d) : y \in {999, 2021}, m \in {1, 12}, d \in {5, 31} }

\* date.strftime("%m/%d/%Y"): %m and %d are two digits with a leading zero.
\* %Y is left to the C library: glibc writes the year without leading zeros
\* ("999"), other libraries write four digits ("0999").
CLibraries == {"glibc", "padding"}
Decimal2(n) == IF n < 10 THEN "0" \o ToString(n) ELSE ToString(n)
Decimal4(n) ==
    IF n < 10 THEN "000" \o ToString(n)
    ELSE IF n < 100 THEN "00" \o ToString(n)
    ELSE IF n < 1000 THEN "0" \o ToString(n)
    ELSE ToString(n)
strftime(date, libc) ==
    Decimal2(date.month) \o "/" \o Decimal2(date.day) \o "/"
        \o (IF libc = "glibc" THEN ToString(date.year) ELSE Decimal4(date.year))

\* (get_tbs_ordered: the earlier date always written first)
Earlier(a, b) ==
    \/ a.year < b.year
    \/ a.year = b.year /\ a.month < b.month
    \/ a.year = b.year /\ a.month = b.month /\ a.day < b.day
get_tbs_ordered(from_date, to_date, libc) ==
    IF Earlier(to_date, from_date)
    THEN "cdr:1,cd_min:" \o strftime(to_date, libc) \o ",cd_max:" \o strftime(from_date, libc)
    ELSE "cdr:1,cd_min:" \o strftime(from_date, libc) \o ",cd_max:" \o strftime(to_date, libc)
get_tbs(from_date, to_date, libc) ==
    "cdr:1,cd_min:" \o strftime(from_date, libc) \o ",cd_max:" \o strftime(to_date, libc)

TbsCall(f, t, libc) ==
    /\ pc = "idle"
    /\ tbs_call' = <<[from_date |-> f, to_date |-> t, tbs |-> get_tbs(f, t, libc)]>>
    /\ UNCHANGED <<variant, args, num, start, cookies, http_429_cool_off_time_in_minutes,
                   extra_params, search_result_list, total_valid_links_found,
                   valid_links_found_in_this_search, link_bound, url, pc, result, obs,
                   filter_call>>

TbsNext == \E f \in Dates, t \in Dates, libc \in CLibraries : TbsCall(f, t, libc)

TbsSpec == Init /\ [][TbsNext]_vars

(***************************************************************************)
(* Properties.                                                             *)
(***************************************************************************)
manages == args.yagooglesearch_manages_http_429s
factor == args.http_429_cool_off_factor
Calling == pc \in {"idle", "returned", "raised"}
UrlSet(list) == {list[i].url : i \in 1..Len(list)}

\* The multiple of u nearest to x, as a count of u; a tie goes to the even count.
Nearest(x, u) ==
    LET lo == x \div u
        below == x - lo * u
        above == (lo + 1) * u - x
    IN  IF below < above THEN lo
        ELSE IF above < below THEN lo + 1
        ELSE IF lo % 2 = 0 THEN lo ELSE lo + 1

\* The configured duration after n steps d := round(d * factor, 2).
RECURSIVE ExpectedCoolOff(_)
ExpectedCoolOff(n) ==
    IF n = 0 THEN args.http_429_cool_off_time_in_minutes
    ELSE Nearest(ExpectedCoolOff(n - 1) * factor, 1000) * 10

\* C1: the result collection never holds two entries for the same filtered
\* URL, in either output mode.
C1_NoDuplicateUrls ==
    \A i, j \in 1..Len(search_result_list) :
        search_result_list[i].url = search_result_list[j].url => i = j

\* C2: for a cap >= 0 the list search() returns never has more entries than
\* the cap (the sentinel, which is no result, is not even counted).
C2_ReturnedWithinCap ==
    (result.kind = "list" /\ cap >= 0) =>
        Len(SelectSeq(result.list, LAMBDA e : e.url # SENTINEL)) <= cap

\* C3: with self-management disabled a 429 on a search page ends search() at
\* once: the sentinel is appended after the results so far and returned, with
\* no sleep, no escalation, no change of start and no further request.
C3_Unmanaged429IsTerminal ==
    [][ (pc = "get_page" /\ ~manages /\ obs'.status = HTTP_TOO_MANY) =>
          /\ pc' = "returned"
          /\ search_result_list' = Append(search_result_list, StrEntry(SENTINEL))
          /\ result' = Returned(search_result_list')
          /\ obs'.sleeps = <<>>
          /\ obs'.detected = obs.detected
          /\ http_429_cool_off_time_in_minutes' = http_429_cool_off_time_in_minutes
          /\ start' = start
          /\ obs'.requests = obs.requests ]_vars

C3_Witness ==
    /\ pc = "returned"
    /\ ~manages
    /\ obs.status = HTTP_TOO_MANY
    /\ Len(result.list) >= 2
    /\ result.list[Len(result.list)] = StrEntry(SENTINEL)

\* C4: a managed 429 sleeps for the duration as it stood, then escalates,
\* then asks for the same URL again; the k-th 429 of the session sleeps for
\* the duration k-1 escalations produce, the first for the configured one.
C4_SleepEscalateRetry ==
    [][ (manages /\ obs'.status = HTTP_TOO_MANY) =>
          /\ obs'.sleeps =
                <<Sleep("cool_off", http_429_cool_off_time_in_minutes * SecondsPerMinute)>>
          /\ obs'.sleeps[1].ms = ExpectedCoolOff(obs'.detected - 1) * SecondsPerMinute
          /\ obs'.detected = obs.detected + 1
          /\ http_429_cool_off_time_in_minutes' = ExpectedCoolOff(obs'.detected)
          /\ url' = url
          /\ pc' = pc
          /\ obs'.requests = obs.requests + 1
          /\ start' = start /\ num' = num ]_vars

C4_Witness ==
    /\ obs.detected = 2
    /\ factor # 100
    /\ obs.sleeps = <<Sleep("cool_off", ExpectedCoolOff(1) * SecondsPerMinute)>>
    /\ pc = "get_page"

\* C21: in self-managed mode a 429 never makes search() raise or return: the
\* step that receives it leaves the fetch pending and issues the request
\* again, however many 429s came before.
C21_Managed429NeverEndsFetch ==
    [][ (Retries429(variant, args) /\ obs'.status = HTTP_TOO_MANY) =>
          /\ pc' = pc
          /\ result' = Pending
          /\ obs'.requests = obs.requests + 1 ]_vars

\* The 429 that search() does not survive: the retry would nest get_page
\* deeper than the interpreter allows.
C21_Witness ==
    /\ pc = "raised"
    /\ result = Raised("RecursionError")
    /\ obs.status = HTTP_TOO_MANY
    /\ obs.detected = RecursionLimit
    /\ obs.nested = RecursionLimit

\* Short of that depth the rest of the claim is what the code does: a response
\* other than 429 completes the bootstrap fetch and search() goes on to the
\* loop, whatever the number of 429s before it.
C21_OtherStatusCompletesFetch ==
    [][ (pc = "get_home" /\ obs'.status \notin {0, HTTP_TOO_MANY}) =>
          pc' \in {"get_page", "returned"} ]_vars

\* C22: a request that ends in a transport failure instead of a response
\* (bootstrap, search page or 429 retry alike) makes search() raise the
\* client's exception: nothing is retried, nothing else changes, and the next
\* request, if any, is the first of a new search() call.
C22_TransportFailurePropagates ==
    [][ /\ (pc \in {"get_home", "get_page"} /\ obs'.status = 0) =>
              /\ pc' = "raised"
              /\ result' = Raised("RequestException")
              /\ obs'.requests = obs.requests
              /\ obs'.sleeps = <<>>
              /\ UNCHANGED <<start, cookies, http_429_cool_off_time_in_minutes,
                             search_result_list, total_valid_links_found, url>>
        /\ (pc = "raised" /\ obs'.requests # obs.requests) =>
              /\ obs'.call_requests = 1
              /\ pc' = "get_home" ]_vars

\* The failure of a 429 retry of a search-page request.
C22_Witness ==
    /\ pc = "raised"
    /\ result = Raised("RequestException")
    /\ obs.detected >= 1
    /\ obs.nested = 2
    /\ obs.page_requests = 2

\* The keys of a URL before the caller-supplied ones, as a set, and the keys
\* every search URL of a variant carries (legacy 1.2.0 has no lr).
BuiltInPart(u, extra) == {u.keys[i] : i \in 1..(Len(u.keys) - Len(extra))}
EveryShape(v) ==
    {"hl", "q", "tbs", "safe", "cr", "filter"} \cup (IF v = "current" THEN {"lr"} ELSE {})

\* C23: the URL of a pending search-page request carries start exactly when
\* start # 0 (with the current offset as its value), num exactly when
\* num # 10, btnG exactly when start = 0, and hl, lr, q, tbs, safe, cr and
\* filter always; the caller-supplied parameters come after all of these.
C23_UrlShape ==
    pc = "get_page" =>
        /\ url.page = "search"
        /\ Len(url.keys) >= Len(extra_params)
        /\ SubSeq(url.keys, Len(url.keys) - Len(extra_params) + 1, Len(url.keys))
              = extra_params
        /\ ("start" \in BuiltInPart(url, extra_params)) <=> (start # 0)
        /\ ("num" \in BuiltInPart(url, extra_params)) <=> (num # DefaultNum)
        /\ ("btnG" \in BuiltInPart(url, extra_params)) <=> (start = 0)
        /\ EveryShape(variant) \subseteq BuiltInPart(url, extra_params)
        /\ BuiltInPart(url, extra_params) \subseteq
              EveryShape(variant) \cup {"start", "num", "btnG"}
        /\ url.start = start
        /\ url.num = (IF num = DefaultNum THEN 0 ELSE num)

\* A second page of a search with num = 1 and a caller-supplied parameter.
C23_Witness ==
    /\ pc = "get_page"
    /\ variant = "current"
    /\ start # 0
    /\ num # DefaultNum
    /\ extra_params # <<>>
    /\ url.keys = <<"hl", "lr", "q", "start", "num", "tbs", "safe", "cr", "filter">>
                     \o extra_params

\* s is t with some elements left out, the order kept.
IsSubsequence(s, t) ==
    \E f \in [1..Len(s) -> 1..Len(t)] :
        /\ \A i \in 1..Len(s) : s[i] = t[f[i]]
        /\ \A i, j \in 1..Len(s) : i < j => f[i] < f[j]
\* The links a step added to the collection (the sentinel is not a link).
AddedLinks(old, new) ==
    LET part == SubSeq(new, Len(old) + 1, Len(new))
        links == SelectSeq(part, LAMBDA e : e.url # SENTINEL)
    IN  [i \in 1..Len(links) |-> links[i].url]

\* C24: in the current variant every page only appends to the collection, the
\* links it appends are in the order of their anchors on the page, the list
\* returned is the collection as it stands, and in structured-output mode the
\* record at position i has rank i.
C24_DiscoveryOrderAndRanks ==
    [][ (variant = "current" /\ pc = "get_page") =>
          /\ Len(search_result_list') >= Len(search_result_list)
          /\ SubSeq(search_result_list', 1, Len(search_result_list)) = search_result_list
          /\ IsSubsequence(AddedLinks(search_result_list, search_result_list'), obs'.links)
          /\ (pc' = "returned" /\ result'.kind = "list") =>
                result'.list = search_result_list'
          /\ \A i \in 1..Len(search_result_list') :
                search_result_list'[i].type = "dict" => search_result_list'[i].rank = i
          /\ args.verbose_output =>
                \A i \in 1..Len(search_result_list') :
                   search_result_list'[i].type = "dict"
                     \/ (i = Len(search_result_list')
                           /\ search_result_list'[i] = StrEntry(SENTINEL)) ]_vars

\* Three records returned from two pages, the second page giving two of them.
C24_Witness ==
    /\ variant = "current"
    /\ args.verbose_output
    /\ pc = "returned"
    /\ obs.page_requests = 2
    /\ obs.links = <<ExampleCom, ExampleOrg>>
    /\ Len(result.list) = 3
    /\ result.list[2] = DictEntry(2, ExampleCom)
    /\ result.list[3] = DictEntry(3, ExampleOrg)

\* A date as the claim writes it: two digits, two digits, four digits.
Digit(n) == ToString(n % 10)
MMDDYYYY(date) ==
    Digit(date.month \div 10) \o Digit(date.month) \o "/"
      \o Digit(date.day \div 10) \o Digit(date.day) \o "/"
      \o Digit(date.year \div 1000) \o Digit(date.year \div 100)
      \o Digit(date.year \div 10) \o Digit(date.year)
\* The same with the year in plain decimal.
MMDDY(date) ==
    Digit(date.month \div 10) \o Digit(date.month) \o "/"
      \o Digit(date.day \div 10) \o Digit(date.day) \o "/" \o ToString(date.year)

\* C25 as stated: for every pair of dates, in either order, get_tbs returns
\* "cdr:1,cd_min:<from>,cd_max:<to>" with both dates as zero-padded MM/DD/YYYY.
C25_ZeroPaddedMMDDYYYY ==
    \A i \in 1..Len(tbs_call) :
        tbs_call[i].tbs = "cdr:1,cd_min:" \o MMDDYYYY(tbs_call[i].from_date)
                            \o ",cd_max:" \o MMDDYYYY(tbs_call[i].to_date)

\* C25 amended: from goes to cd_min and to goes to cd_max whatever their
\* order, month and day are two digits; the year is four digits from the year
\* 1000 on, and before that either four digits or the plain number.
C25_FromToInOrderGiven ==
    \A i \in 1..Len(tbs_call) :
        \E f \in {MMDDYYYY(tbs_call[i].from_date)}
                   \cup (IF tbs_call[i].from_date.year < 1000
                         THEN {MMDDY(tbs_call[i].from_date)} ELSE {}),
           t \in {MMDDYYYY(tbs_call[i].to_date)}
                   \cup (IF tbs_call[i].to_date.year < 1000
                         THEN {MMDDY(tbs_call[i].to_date)} ELSE {}) :
            tbs_call[i].tbs = "cdr:1,cd_min:" \o f \o ",cd_max:" \o t

\* A period given backwards: 31 December 2021 to 5 January 2021.
C25_Witness ==
    /\ tbs_call # <<>>
    /\ tbs_call[1].from_date = Date(2021, 12, 31)
    /\ tbs_call[1].to_date = Date(2021, 1, 5)
    /\ tbs_call[1].tbs = "cdr:1,cd_min:12/31/2021,cd_max:01/05/2021"

\* C26: with self-management disabled a 429 in answer to the bootstrap request
\* ends search(): the sentinel is returned and no search-page request follows.
C26_Bootstrap429EndsSearch ==
    [][ (variant = "current" /\ ~manages /\ pc = "get_home"
           /\ obs'.status = HTTP_TOO_MANY) =>
          /\ pc' = "returned"
          /\ result'.kind = "list"
          /\ result'.list = <<StrEntry(SENTINEL)>>
          /\ obs'.requests = obs.requests ]_vars

\* What the code does instead: the first search-page request is pending right
\* after the 429 of the bootstrap request.
C26_Witness ==
    /\ variant = "current"
    /\ ~manages
    /\ pc = "get_page"
    /\ obs.status = HTTP_TOO_MANY
    /\ obs.call_requests = 2
    /\ obs.page_requests = 1
    /\ search_result_list = <<>>

\* C27: a search() call that passes the collision check starts with the fetch
\* of the home page, whose URL has no query parameters; the fetch is over
\* before the first search-page request (only a managed 429 asks for the home
\* page again, as part of the same fetch), and no home page request follows a
\* search-page request in the same call.  The response to it leaves the
\* collection, the counters and start as they were.
C27_HomeOnceAndBodyUnused ==
    [][ /\ (pc' = "get_home" /\ pc # "get_home") =>
              Calling /\ obs'.call_requests = 1
        /\ (pc' = "get_home") =>
              url' = url_home /\ url'.keys = <<>> /\ obs'.page_requests = 0
        /\ (pc = "get_home" /\ pc' = "get_home") =>
              Retries429(variant, args) /\ obs'.status = HTTP_TOO_MANY
        /\ (pc' = "get_page" /\ obs'.page_requests = 1 /\ obs.page_requests = 0) =>
              pc = "get_home"
        /\ (pc = "get_page") => pc' # "get_home"
        /\ (pc = "get_home" /\ obs'.status # 0) =>
              UNCHANGED <<start, search_result_list, total_valid_links_found,
                          valid_links_found_in_this_search, link_bound>> ]_vars

\* The third page of a call is pending: one home page request, three
\* search-page requests, links collected from the pages only.
C27_Witness ==
    /\ pc = "get_page"
    /\ obs.page_requests = 3
    /\ obs.call_requests = 4
    /\ obs.detected = 0
    /\ Len(search_result_list) = 2

Jitters(sleeps) == SelectSeq(sleeps, LAMBDA sl : sl.kind = "jitter")

\* C28: the step from a search-page request to the request for the next
\* offset takes exactly one jitter sleep, of a whole number of seconds from
\* the minimum to the minimum + 10, taken when start already holds the next
\* offset, and the request that follows carries that offset; no other step
\* takes a jitter sleep: not the one that issues the first search-page
\* request, not a 429 retry, not the one in which search() ends.
C28_OneJitterBetweenOffsets ==
    [][ /\ (pc = "get_page" /\ pc' = "get_page" /\ url'.start # url.start) =>
              /\ Len(Jitters(obs'.sleeps)) = 1
              /\ obs'.sleeps = Jitters(obs'.sleeps)
              /\ \E d \in args.minimum_delay_between_paged_results_in_seconds ..
                          (args.minimum_delay_between_paged_results_in_seconds + 10) :
                     obs'.sleeps[1].ms = d * 1000
              /\ start' = start + num
              /\ obs'.slept_at = <<start'>>
              /\ url'.start = start'
        /\ ~(pc = "get_page" /\ pc' = "get_page" /\ url'.start # url.start) =>
              Jitters(obs'.sleeps) = <<>> ]_vars

\* The longest jitter sleep, before the third search page.
C28_Witness ==
    /\ pc = "get_page"
    /\ obs.page_requests = 3
    /\ obs.sleeps = <<Sleep("jitter",
                   (args.minimum_delay_between_paged_results_in_seconds + 10) * 1000)>>
    /\ obs.slept_at = <<start>>
    /\ start = 2

\* C29: when the loop bound ends search(), with the counter of unique links
\* above the cap, the caller gets the accumulated result list.
C29_BoundStopsWithList ==
    [][ (pc \in {"get_home", "get_page"} /\ pc' = "returned"
           /\ total_valid_links_found' > cap) =>
          /\ result'.kind = "list"
          /\ result'.list = search_result_list' ]_vars

\* What the code does: the bound stops the loop at its first test (cap -1)
\* and search() returns None.
C29_Witness ==
    /\ pc = "returned"
    /\ result = ReturnedNone
    /\ total_valid_links_found > cap
    /\ obs.page_requests = 0
    /\ obs.call_requests = 1

\* The first half of the claim holds: a search-page request is pending only
\* in a state whose counter does not exceed the cap.
C29_NoFetchBeyondCap ==
    pc = "get_page" => total_valid_links_found <= cap

\* C30: in the legacy variant a page that has been processed to its end with
\* the cap not reached ends search() exactly when it gave fewer than num new
\* valid links; with num or more the next page is requested.
C30_LegacyStopsBelowNum ==
    [][ ( /\ variant = "legacy"
          /\ pc = "get_page"
          /\ obs'.status \notin {0, HTTP_TOO_MANY}
          /\ pc' # "raised"
          /\ Len(search_result_list') < cap ) =>
          ((pc' = "returned") <=> (valid_links_found_in_this_search' < num)) ]_vars

\* What the code does: the first page gives two new links for num = 1, the
\* cap of 3 is not reached, and search() returns.
C30_Witness ==
    /\ variant = "legacy"
    /\ pc = "returned"
    /\ num = 1
    /\ cap = 3
    /\ obs.page_requests = 1
    /\ valid_links_found_in_this_search = 2
    /\ Len(result.list) = 2

Max(a, b) == IF a >= b THEN a ELSE b

\* The requests the session made before the call under way, and those the
\* call may need, fit in the model's bound on requests.
RoomForCall == (obs.requests - obs.call_requests) + 1 + Max(cap, 1) <= MaxRequests

\* C31: with no 429 and no transport error, for a cap >= 0 a search() call
\* makes at most max(cap, 1) search-page requests and then ends: a page after
\* which the next one is requested has added at least one entry and left
\* the collection below the cap, and every request in flight leads to the
\* end of the call.
C31_TerminatesWithinCapPages ==
    /\ [][ cap >= 0 =>
             /\ obs'.page_requests <= Max(cap, 1)
             /\ (pc = "get_page" /\ pc' = "get_page") =>
                   /\ Len(search_result_list') > Len(search_result_list)
                   /\ Len(search_result_list') < cap ]_vars
    /\ (cap >= 0 /\ pc \in {"get_home", "get_page"} /\ RoomForCall)
          ~> (pc \in {"returned", "raised"})

\* The third of three search pages, for a cap of 3, has been answered and
\* search() has returned.
C31_Witness ==
    /\ cap = 3
    /\ pc = "returned"
    /\ obs.page_requests = 3
    /\ Len(result.list) = 3

\* C32: the step that handles a 429 in self-managed mode leaves start, num,
\* the collection and both counters as they were when the request was issued;
\* the request it repeats is for the same URL.
C32_Managed429LeavesSearchState ==
    [][ (manages /\ obs'.status = HTTP_TOO_MANY) =>
          /\ UNCHANGED <<start, num, search_result_list, total_valid_links_found,
                         valid_links_found_in_this_search, extra_params>>
          /\ url' = url ]_vars

\* A 429 on the second search page, after a first page that gave a link and
\* moved start.
C32_Witness ==
    /\ manages
    /\ pc = "get_page"
    /\ obs.status = HTTP_TOO_MANY
    /\ obs.page_requests = 3
    /\ obs.nested = 2
    /\ start = args.start + num
    /\ total_valid_links_found = 1
    /\ valid_links_found_in_this_search = 1
    /\ Len(search_result_list) = 1
    /\ http_429_cool_off_time_in_minutes # args.http_429_cool_off_time_in_minutes

\* C33: a call of search(), the first or a later one on the same object,
\* empties the collection and the unique counter and leaves start, the jar
\* and the cool-off duration as the previous call left them; its first
\* search-page request is for the offset start then holds.
C33_SecondCallKeepsSessionState ==
    [][ /\ Calling =>
              /\ search_result_list' = <<>>
              /\ total_valid_links_found' = 0
              /\ UNCHANGED <<start, num, cookies, http_429_cool_off_time_in_minutes>>
        /\ (pc = "get_home" /\ pc' = "get_page") =>
              /\ start' = start
              /\ url'.start = start
              /\ search_result_list' = <<>> ]_vars

\* The first search-page request of a second call, at the offset the first
\* call reached, sent with the jar the first call left.
C33_Witness ==
    /\ pc = "get_page"
    /\ obs.page_requests = 1
    /\ obs.call_requests = 2
    /\ obs.requests = 5
    /\ search_result_list = <<>>
    /\ start = args.start + num
    /\ url.start = start
    /\ obs.sent_cookies # {}
    /\ obs.sent_cookies = cookies

\* C5: after N rate-limit events the duration is the configured one with the
\* step d := round(d * factor, 2) applied N times.
C5_RoundedAtEveryStep ==
    http_429_cool_off_time_in_minutes = ExpectedCoolOff(obs.detected)

\* 0.13 minutes and factor 1.2, three events: rounding once gives
\* round(0.13 * 1.2^3, 2) = 0.22, rounding at every step 0.23.
C5_Witness ==
    /\ args.http_429_cool_off_time_in_minutes = 130
    /\ factor = 120
    /\ obs.detected = 3
    /\ http_429_cool_off_time_in_minutes = 230
    /\ Nearest(130 * 120 * 120 * 120, 10000000) * 10 = 220

\* C6 as stated: for every initial duration and factor >= 1 the duration
\* never decreases.
C6_NeverDecreases ==
    [][ factor >= 100 =>
          http_429_cool_off_time_in_minutes' >= http_429_cool_off_time_in_minutes ]_vars

\* C6 amended: the duration changes only when a managed 429 is handled, and
\* when the configured duration has at most two decimals and the factor is
\* >= 1 no change decreases it.
C6_NeverDecreasesTwoDecimals ==
    [][ /\ http_429_cool_off_time_in_minutes' # http_429_cool_off_time_in_minutes =>
              (manages /\ obs'.status = HTTP_TOO_MANY)
        /\ (factor >= 100 /\ args.http_429_cool_off_time_in_minutes % 10 = 0) =>
              http_429_cool_off_time_in_minutes' >= http_429_cool_off_time_in_minutes ]_vars

\* A later search() call starts with the escalated duration.
C6_Witness ==
    /\ pc = "get_home"
    /\ obs.call_requests = 1
    /\ obs.requests > 1
    /\ obs.detected >= 1
    /\ args.http_429_cool_off_time_in_minutes % 10 = 0
    /\ http_429_cool_off_time_in_minutes > args.http_429_cool_off_time_in_minutes

\* C7: in the current variant a search page that adds no URL to the
\* collection makes search() return the results so far, without advancing
\* start, without a jitter sleep and without another request.
C7_ZeroNewLinksEndsSearch ==
    [][ ( /\ variant = "current"
          /\ pc = "get_page"
          /\ obs'.status \notin {0, HTTP_TOO_MANY}
          /\ UrlSet(search_result_list') = UrlSet(search_result_list) ) =>
          /\ pc' = "returned"
          /\ result' = Returned(search_result_list)
          /\ start' = start
          /\ obs'.sleeps = <<>>
          /\ obs'.requests = obs.requests ]_vars

\* The names a caller-supplied parameter must not take.
BuiltInNames(v) ==
    {"btnG", "cr", "hl", "num", "q", "safe", "start", "tbs"}
        \cup (IF v = "current" THEN {"lr"} ELSE {})

\* C8: a caller-supplied parameter with a built-in name makes search() raise
\* ValueError before any request, leaving start, cookies and the cool-off
\* duration as they were.
C8_CollisionRaisesBeforeAnyRequest ==
    [][ (Calling /\ \E i \in 1..Len(extra_params) : extra_params[i] \in BuiltInNames(variant)) =>
          /\ pc' = "raised"
          /\ result' = Raised("ValueError")
          /\ obs'.requests = obs.requests
          /\ obs'.call_requests = 0
          /\ start' = start
          /\ cookies' = cookies
          /\ http_429_cool_off_time_in_minutes' = http_429_cool_off_time_in_minutes ]_vars

C8_Witness ==
    /\ pc = "raised"
    /\ result = Raised("ValueError")
    /\ extra_params = <<"num">>
    /\ obs.requests = 0

\* C9: no search-page URL that is requested holds the same query-parameter
\* key twice.
C9_NoDuplicateKey ==
    pc = "get_page" =>
        \A i, j \in 1..Len(url.keys) : url.keys[i] = url.keys[j] => i = j

\* C10: num is at most 100 after construction and in every later state, and
\* a value that was not over 100 is kept.
C10_NumAtMost100 ==
    /\ num <= 100
    /\ args.num <= 100 => num = args.num

C10_Witness ==
    /\ args.num > 100
    /\ num = 100
    /\ obs.page_requests >= 2
    /\ url.num = 100

\* C11: start changes only by +num, and only when the response to the search
\* page at the current offset has been processed and did not end the search;
\* every search page requested carries the current offset, which is the
\* configured one plus a whole number of page sizes.
C11_StartAdvancesByNum ==
    [][ /\ start' # start =>
              /\ start' = start + num
              /\ start' > start
              /\ pc = "get_page"
              /\ url.start = start
              /\ obs'.status = HTTP_OK
              /\ result'.kind \notin {"list", "raise"}
        /\ pc' = "get_page" =>
              /\ url'.page = "search"
              /\ url'.start = start'
              /\ \E k \in 0..MaxRequests : start' = args.start + k * num ]_vars

\* The third search page of a session that began at offset 5.
C11_Witness ==
    /\ pc = "get_page"
    /\ args.start = 5
    /\ obs.page_requests = 3
    /\ start = args.start + 2 * num
    /\ url.start = start

\* C12: a returned list holds the sentinel only as its last entry, and only
\* when self-management is disabled and the search page just requested was
\* answered with status 429.
C12_SentinelOnlyAfterUnmanaged429 ==
    (pc = "returned" /\ result.kind = "list") =>
        \A i \in 1..Len(result.list) :
            result.list[i].url = SENTINEL =>
                /\ i = Len(result.list)
                /\ ~manages
                /\ obs.status = HTTP_TOO_MANY

\* What a claim about the filter expects: a key of a query string, its first
\* value, the decoded value, and the two host tests.
Present(query, key, blank_counts) ==
    \E i \in 1..Len(query) : query[i].k = key /\ (blank_counts \/ query[i].v # Blank)
FirstValue(query, key, blank_counts) ==
    LET at == CHOOSE i \in 1..Len(query) :
                /\ query[i].k = key /\ (blank_counts \/ query[i].v # Blank)
                /\ \A j \in 1..(i - 1) :
                      ~(query[j].k = key /\ (blank_counts \/ query[j].v # Blank))
    IN  IF query[at].v = ExampleComQuoted THEN ExampleCom ELSE query[at].v
HostChecked(l) ==
    IF l.netloc = <<>> THEN None
    ELSE IF \E i \in 1..Len(l.netloc) : l.netloc[i] \in {"google", "Google", "GOOGLE"} THEN None
    ELSE l
Substituted(query, blank_counts) ==
    IF Present(query, "q", blank_counts)
    THEN HostChecked(FirstValue(query, "q", blank_counts))
    ELSE IF Present(query, "url", blank_counts)
    THEN HostChecked(FirstValue(query, "url", blank_counts))
    ELSE None

\* C13 as stated: for a redirect wrapper the filter gives the value of q
\* when the query string has a q, otherwise the value of url, and None when
\* it has neither; the value has to pass the host tests.
C13_QWhenPresentElseUrl ==
    \A i \in 1..Len(filter_call) :
        IsWrapper(filter_call[i].href) =>
            filter_call[i].link = Substituted(filter_call[i].href.query, TRUE)

\* C13 amended: a key given with an empty value counts as absent.
C13_QWhenNotEmptyElseUrl ==
    \A i \in 1..Len(filter_call) :
        IsWrapper(filter_call[i].href) =>
            filter_call[i].link = Substituted(filter_call[i].href.query, FALSE)

\* /url?q=&url=https://example.org&sa=U gives https://example.org
C13_Witness ==
    /\ filter_call # <<>>
    /\ filter_call[1].href =
          WrapperHref("/url?", << [k |-> "q", v |-> Blank], [k |-> "url", v |-> ExampleOrg],
                                 [k |-> "sa", v |-> Str(<<>>, "U")] >>)
    /\ filter_call[1].link = ExampleOrg

\* The host of a link: its netloc without the port.
Host(link) == SelectSeq(link.netloc, LAMBDA piece : piece # ":80")

\* C14: every URL in the result collection has a host, and the host does
\* not hold "google" in any letter case.
C14_ResultsHaveForeignHost ==
    \A i \in 1..Len(search_result_list) :
        search_result_list[i].url # SENTINEL =>
            /\ Host(search_result_list[i].url) # <<>>
            /\ \A j \in 1..Len(search_result_list[i].url.netloc) :
                  search_result_list[i].url.netloc[j] \notin {"google", "Google", "GOOGLE"}

\* C15: an anchor without href never makes search() raise, and it does not
\* keep the anchors after it from being processed: a 200 search page is
\* left before its last anchor only when the cap is reached.
C15_AnchorWithoutHrefIsSkipped ==
    [][ (pc = "get_page" /\ obs'.status = HTTP_OK) =>
          /\ pc' # "raised"
          /\ obs'.anchors_left > 0 => (pc' = "returned" /\ cap <= Len(search_result_list')) ]_vars

\* The loop of search() in the middle of a call: one result found so far.
OneFound ==
    [ list |-> << IF args.verbose_output THEN DictEntry(1, ExampleOrg) ELSE StrEntry(ExampleOrg) >>,
      total |-> 1, valid |-> 1, bound |-> FALSE, seen |-> 0, out |-> "loop" ]

\* C16: the filter gives back a URL string or None and never an exception,
\* whatever it is given (a value that is no string and a wrapper without q
\* and url included); and an anchor whose href it answers with None leaves
\* the collection and both counters of search() as they were.
C16_FilterNeverRaises ==
    \A i \in 1..Len(filter_call) :
        LET c == filter_call[i] IN
        /\ c.link = None \/ (c.link.type = "str" /\ c.link.netloc # <<>>)
        /\ c.link = None =>
              ProcessAnchors(args.verbose_output, cap, <<Anchor(c.href)>>, 1, OneFound)
                = [OneFound EXCEPT !.bound = TRUE, !.seen = 1, !.out = "end"]

\* The filter was given the integer 7.
C16_Witness ==
    /\ filter_call # <<>>
    /\ filter_call[1].href = PlainHref(NotAString)
    /\ filter_call[1].link = None

\* C17: a search-page response with a status other than 200 and 429 is not
\* retried: the page counts zero valid links and search() returns what the
\* earlier pages gave, with no further request, no sleep and no error.
C17_OtherStatusEndsSearch ==
    [][ (pc = "get_page" /\ obs'.status \notin {0, HTTP_OK, HTTP_TOO_MANY}) =>
          /\ pc' = "returned"
          /\ \E r \in Orders(variant, search_result_list) : result' = Returned(r)
          /\ search_result_list' = search_result_list
          /\ valid_links_found_in_this_search' = 0
          /\ total_valid_links_found' = total_valid_links_found
          /\ obs'.requests = obs.requests
          /\ obs'.sleeps = <<>>
          /\ start' = start
          /\ http_429_cool_off_time_in_minutes' = http_429_cool_off_time_in_minutes ]_vars

\* A 500 on the second search page, after a first page with a result.
C17_Witness ==
    /\ pc = "returned"
    /\ obs.status = 500
    /\ obs.page_requests = 2
    /\ result.kind = "list"
    /\ Len(result.list) >= 1
    /\ start = args.start + num

\* The consent-granted cookie, whatever its token.
IsGranted(c) ==
    /\ c.name = "CONSENT"
    /\ Len(c.value) = 4
    /\ SubSeq(c.value, 1, 3) = <<"YES", "shp.gws-20211108-0-RC1.fr", "F">>

\* C18 as stated: after every response the jar held is the jar of that
\* response, and every request sends the jar held when it is issued.
C18_JarIsResponseJar ==
    [][ /\ obs'.status # 0 => cookies' = obs'.response_cookies
        /\ obs'.requests # obs.requests => obs'.sent_cookies = cookies' ]_vars

\* C18 amended: the jar held is the jar of the response, except that in the
\* current variant a response with a pending CONSENT cookie leaves the one
\* consent-granted cookie; in both cases nothing of the jar held before is
\* kept, the cookie given at construction included.
C18_JarReplacedWholesale ==
    [][ /\ obs'.status # 0 =>
              IF variant = "current" /\ ConsentPending(obs'.response_cookies)
              THEN Cardinality(cookies') = 1 /\ \A c \in cookies' : IsGranted(c)
              ELSE cookies' = obs'.response_cookies
        /\ obs'.status = 0 => cookies' = cookies
        /\ obs'.status # 0 =>
              \A c \in cookies \ obs'.response_cookies : IsGranted(c) \/ c \notin cookies'
        /\ obs'.requests # obs.requests => obs'.sent_cookies = cookies' ]_vars

\* The cookie given at construction went out with the first request and is
\* not sent with the second.
C18_Witness ==
    /\ args.google_exemption # ""
    /\ obs.requests = 2
    /\ pc = "get_page"
    /\ obs.status # HTTP_OK
    /\ obs.sent_cookies = obs.response_cookies
    /\ InitialCookies(args.google_exemption) \cap obs.sent_cookies = {}

\* The cookie CONSENT=YES+shp.gws-20211108-0-RC1.fr+F+<token>, the token
\* being what stands between the first and the second '+' of the pending
\* CONSENT cookie of the jar.
GrantedFor(jar) ==
    { Cookie("CONSENT", <<"YES", "shp.gws-20211108-0-RC1.fr", "F", c.value[2]>>) :
        c \in {d \in jar : d.name = "CONSENT"} }

\* C19: in the current variant, once a response with a pending CONSENT
\* cookie has left the consent-granted cookie as the jar, the requests
\* issued from then on carry a consent-granted cookie.
C19_ConsentGrantedIsKept ==
    [][ ( /\ variant = "current"
          /\ \E c \in cookies : IsGranted(c)
          /\ obs'.requests # obs.requests ) =>
          \E c \in obs'.sent_cookies : IsGranted(c) ]_vars

\* C19, the part that holds: a response with a pending CONSENT cookie leaves
\* the one consent-granted cookie with the token of the pending one as the
\* jar, and the one request issued before the next response (the retry of
\* a 429, the next page, the first request of a later search() call)
\* carries it.
C19_ConsentGrantedIsSentNext ==
    [][ /\ ( /\ variant = "current"
              /\ obs'.status # 0
              /\ ConsentPending(obs'.response_cookies) ) =>
            /\ Cardinality(cookies') = 1
            /\ cookies' = GrantedFor(obs'.response_cookies)
            /\ obs'.requests # obs.requests => obs'.sent_cookies = cookies'
        /\ (Calling /\ obs'.requests # obs.requests) => obs'.sent_cookies = cookies ]_vars

\* A managed 429 that came with the pending cookie: the retry carries the
\* replacement.
C19_RetryCarriesGranted ==
    /\ variant = "current"
    /\ manages
    /\ pc = "get_page"
    /\ obs.status = HTTP_TOO_MANY
    /\ obs.sleeps # <<>>
    /\ ConsentPending(obs.response_cookies)
    /\ obs.sent_cookies =
          {Cookie("CONSENT", <<"YES", "shp.gws-20211108-0-RC1.fr", "F", "123">>)}

\* C20: in the current variant a 200 search page that comes with the pending
\* CONSENT cookie does not end search(): the next request is issued, unless
\* the cap is reached.
C20_ConsentDoesNotEndSearch ==
    [][ ( /\ variant = "current"
          /\ pc = "get_page"
          /\ obs'.status = HTTP_OK
          /\ ConsentPending(obs'.response_cookies) ) =>
          \/ pc' = "get_page"
          \/ pc' = "returned" /\ cap <= Len(search_result_list') ]_vars

====
